---- MODULE Spec2Model ----
(***************************************************************************)
(* ned_extinction_calc.py: request_extinctions and the NEDParser it feeds. *)
(*                                                                         *)
(* Text (filter names, row fragments) is a sequence of one-character       *)
(* strings, so that ' '.join, the substring test `filt in name` and        *)
(* float() are computed character by character.  Tag names and attribute   *)
(* values are only ever compared for equality and stay TLA+ strings.       *)
(* A float is an exact rational <<numerator, denominator>> in lowest       *)
(* terms; None is the empty tuple.                                         *)
(***************************************************************************)
EXTENDS Integers, Sequences, FiniteSets

(* ---- bounds of the model ---- *)
MaxLines == 3
MaxFilters == 2

(* ---- httplib.OK ---- *)
OK == 200

(* ---- text ---- *)
S_V == <<"V">>
S_C == <<"C">>
S_L == <<"L">>
S_g == <<"g">>
S_CV == <<"C", " ", "V">>
S_01 == <<"0", ".", "1">>
S_03 == <<"0", ".", "3">>

\* str(bytes) starts with b' : the first text the parser is handed.
BytesPrefix == <<"b", "'">>

\* The filter names a caller asks for.
FilterNames == {S_V, S_CV, S_g}

(* ---- the events html.parser hands to the handlers ---- *)
StartTag(tag, attrs) == [type |-> "start", tag |-> tag, attrs |-> attrs, data |-> <<>>]
EndTag(tag) == [type |-> "end", tag |-> tag, attrs |-> <<>>, data |-> <<>>]
Data(text) == [type |-> "data", tag |-> "", attrs |-> <<>>, data |-> text]

Cell(text) == <<StartTag("td", <<>>), Data(text), EndTag("td")>>

RECURSIVE Cells(_)
Cells(texts) == IF texts = <<>> THEN <<>> ELSE Cell(texts[1]) \o Cells(Tail(texts))

\* <tr><td>..</td>...</tr>
RowLine(texts) == <<StartTag("tr", <<>>)>> \o Cells(texts) \o <<EndTag("tr")>>

\* The lines a response body is made of, each as the events feeding it raises.
Lines ==
    { <<StartTag("div", << <<"id", "moreBANDS">> >>), StartTag("table", <<>>)>>,
      <<StartTag("div", << <<"class", "x">>, <<"id", "other">> >>)>>,
      <<EndTag("table"), EndTag("div")>>,
      RowLine(<<S_C, S_V, S_01>>),
      RowLine(<<S_C, S_V, S_03>>),
      RowLine(<<S_L, S_V, S_03>>),
      RowLine(<<S_C, S_V>>),
      RowLine(<<S_01>>),
      RowLine(<<>>),
      Cell(S_03),
      <<EndTag("tr")>> }

Responses ==
    { [status |-> 200, reason |-> "OK"],
      [status |-> 204, reason |-> "No Content"],
      [status |-> 500, reason |-> "Internal Server Error"] }

None == <<>>
NoResponse == [status |-> 0, reason |-> ""]
NoConn == [state |-> "none", requests |-> 0]
NoResult == [shape |-> "none", value |-> <<>>]
NoError == [type |-> "none", status |-> 0, reason |-> ""]

Range(s) == {s[i] : i \in 1..Len(s)}

Min(a, b) == IF a < b THEN a ELSE b

(* ---- exact arithmetic standing for float arithmetic ---- *)
RECURSIVE Gcd(_, _)
Gcd(a, b) == IF b = 0 THEN a ELSE Gcd(b, a % b)

Rat(n, d) == IF n = 0 THEN <<0, 1>> ELSE <<n \div Gcd(n, d), d \div Gcd(n, d)>>

RatAdd(a, b) == Rat(a[1] * b[2] + b[1] * a[2], a[2] * b[2])

RatDiv(a, k) == Rat(a[1], a[2] * k)

RECURSIVE sum(_)
sum(vals) == IF vals = <<>> THEN <<0, 1>> ELSE RatAdd(sum(SubSeq(vals, 1, Len(vals) - 1)), vals[Len(vals)])

(* ---- float(text) ---- *)
\* Of the literals float() takes, the plain decimal ones: digits with at most
\* one point.  No text of Lines is of another form float() would take (a sign,
\* an exponent, inf, nan, blanks around the number).
Digit == {"0", "1", "2", "3", "4", "5", "6", "7", "8", "9"}

DigitVal(c) == CHOOSE n \in 0..9 : <<"0", "1", "2", "3", "4", "5", "6", "7", "8", "9">>[n + 1] = c

IsDigit(c) == c \in Digit

IsDot(c) == c = "."

RECURSIVE ToInt(_)
ToInt(ds) == IF ds = <<>> THEN 0 ELSE ToInt(SubSeq(ds, 1, Len(ds) - 1)) * 10 + DigitVal(ds[Len(ds)])

RECURSIVE Pow10(_)
Pow10(k) == IF k = 0 THEN 1 ELSE 10 * Pow10(k - 1)

FracLen(s) ==
    IF \E i \in 1..Len(s) : s[i] = "."
    THEN Len(s) - (CHOOSE i \in 1..Len(s) : s[i] = ".")
    ELSE 0

\* [ok |-> FALSE] is the ValueError float() raises.
float(s) ==
    IF /\ \A i \in 1..Len(s) : s[i] \in Digit \cup {"."}
       /\ Len(SelectSeq(s, IsDigit)) >= 1
       /\ Len(SelectSeq(s, IsDot)) <= 1
    THEN [ok |-> TRUE, value |-> Rat(ToInt(SelectSeq(s, IsDigit)), Pow10(FracLen(s)))]
    ELSE [ok |-> FALSE, value |-> None]

(* ---- str operations ---- *)
RECURSIVE join(_, _)
join(sep, parts) ==
    IF parts = <<>> THEN <<>>
    ELSE IF Len(parts) = 1 THEN parts[1]
    ELSE parts[1] \o sep \o join(sep, Tail(parts))

\* `filt in name`
Contains(filt, name) ==
    \E i \in 0..(Len(name) - Len(filt)) : SubSeq(name, i + 1, i + Len(filt)) = filt

(* ---- dict, in insertion order: a sequence of <<key, value>> ---- *)
DictHas(d, k) == \E i \in 1..Len(d) : d[i][1] = k

DictGet(d, k) == d[CHOOSE i \in 1..Len(d) : d[i][1] = k][2]

DictSet(d, k, v) ==
    IF DictHas(d, k)
    THEN [d EXCEPT ![CHOOSE i \in 1..Len(d) : d[i][1] = k] = <<k, v>>]
    ELSE Append(d, <<k, v>>)

DictKeys(d) == [i \in 1..Len(d) |-> d[i][1]]

(* ---- NEDParser ---- *)
\* NEDParser.__init__
NEDParser == [extinctions |-> <<>>, working_entry |-> <<>>, enabled |-> FALSE, raised |-> "none"]

filt_name(entry) == join(<<" ">>, SubSeq(entry, 1, Min(2, Len(entry))))

\* A mapping that keeps the first value seen for a name.
ingest_keep_first(p) ==
    IF p.working_entry = <<>>
    THEN [p EXCEPT !.raised = "IndexError"]
    ELSE IF float(p.working_entry[Len(p.working_entry)]).ok /\ ~DictHas(p.extinctions, filt_name(p.working_entry))
    THEN [p EXCEPT !.extinctions = Append(p.extinctions,
                                          <<filt_name(p.working_entry),
                                            float(p.working_entry[Len(p.working_entry)]).value>>)]
    ELSE p

\* _ingest_working_tuple; raised is the exception it lets out.
ingest_working_tuple(p) ==
    IF p.working_entry = <<>>
    THEN [p EXCEPT !.raised = "IndexError"]
    ELSE IF float(p.working_entry[Len(p.working_entry)]).ok
    THEN [p EXCEPT !.extinctions = DictSet(p.extinctions, filt_name(p.working_entry),
                                           float(p.working_entry[Len(p.working_entry)]).value)]
    ELSE p

HasMarker(attrs) == \E i \in 1..Len(attrs) : attrs[i] = <<"id", "moreBANDS">>

handle_starttag_div(p, tag, attrs) ==
    IF tag = "div" /\ HasMarker(attrs) THEN [p EXCEPT !.enabled = TRUE] ELSE p

handle_starttag(p, tag, attrs) ==
    IF tag = "tr"
    THEN [handle_starttag_div(p, tag, attrs) EXCEPT !.working_entry = <<>>]
    ELSE handle_starttag_div(p, tag, attrs)

handle_endtag_div(p, tag) ==
    IF tag = "div" /\ p.enabled THEN [p EXCEPT !.enabled = FALSE] ELSE p

handle_endtag(p, tag) ==
    IF tag = "tr"
    THEN ingest_working_tuple(handle_endtag_div(p, tag))
    ELSE handle_endtag_div(p, tag)

handle_data(p, data) == [p EXCEPT !.working_entry = p.working_entry \o <<data>>]

\* html.parser's dispatch of one event to its handler.
Handle(p, ev) ==
    IF ev.type = "start" THEN handle_starttag(p, ev.tag, ev.attrs)
    ELSE IF ev.type = "end" THEN handle_endtag(p, ev.tag)
    ELSE handle_data(p, ev.data)

\* parser.feed(line): the events in order, up to the first exception.
RECURSIVE feed(_, _)
feed(p, events) ==
    IF events = <<>> \/ p.raised # "none" THEN p
    ELSE feed(Handle(p, events[1]), Tail(events))

\* The rows that feeding the events closes with a parsed number:
\* <<name, value>> for each, in order.
ClosesRow(p, ev) ==
    /\ ev.type = "end"
    /\ ev.tag = "tr"
    /\ p.working_entry # <<>>
    /\ float(p.working_entry[Len(p.working_entry)]).ok

RECURSIVE Closed(_, _)
Closed(p, events) ==
    IF events = <<>> \/ p.raised # "none" THEN <<>>
    ELSE (IF ClosesRow(p, events[1])
          THEN << <<filt_name(p.working_entry),
                    float(p.working_entry[Len(p.working_entry)]).value>> >>
          ELSE <<>>)
         \o Closed(Handle(p, events[1]), Tail(events))

(* ---- the loop over filters and the shape of the result ---- *)
\* [ext for name, ext in parser.extinctions.items() if filt in name]
RECURSIVE matches(_, _)
matches(filt, dict) ==
    IF dict = <<>> THEN <<>>
    ELSE IF Contains(filt, dict[1][1])
    THEN <<dict[1][2]>> \o matches(filt, Tail(dict))
    ELSE matches(filt, Tail(dict))

\* The sum, not divided.
Average_NoDivide(vals) == sum(vals)

\* sum(matches) / len(matches)
Average(vals) == RatDiv(sum(vals), Len(vals))

\* A warning for one match too.
WarnMultiple_FromOne(vals) == Len(vals) >= 1

WarnMultiple(vals) == Len(vals) > 1

WarningsFor(filt, vals) ==
    IF Len(vals) = 0 THEN << [kind |-> "none", filt |-> filt, n |-> 0] >>
    ELSE IF WarnMultiple(vals) THEN << [kind |-> "multiple", filt |-> filt, n |-> Len(vals)] >>
    ELSE <<>>

ValueFor(vals) == IF Len(vals) = 0 THEN None ELSE Average(vals)

\* for filt in filters: ...   (the list `extinctions` and the warnings, in order)
RECURSIVE Loop(_, _)
Loop(fs, dict) ==
    IF fs = <<>> THEN [extinctions |-> <<>>, warnings |-> <<>>]
    ELSE [extinctions |-> <<ValueFor(matches(fs[1], dict))>> \o Loop(Tail(fs), dict).extinctions,
          warnings |-> WarningsFor(fs[1], matches(fs[1], dict)) \o Loop(Tail(fs), dict).warnings]

\* dict(zip(filters, extinctions))
RECURSIVE DictZip(_, _)
DictZip(keys, vals) ==
    IF keys = <<>> \/ vals = <<>> THEN <<>>
    ELSE DictSet(DictZip(SubSeq(keys, 1, Len(keys) - 1), SubSeq(vals, 1, Len(keys) - 1)),
                 keys[Len(keys)], vals[Len(keys)])

\* The filters argument: one str, or a sequence of str.
FilterSeqs == UNION {[1..n -> FilterNames] : n \in 0..MaxFilters}
FilterArgs == [kind : {"str"}, val : FilterNames] \cup [kind : {"seq"}, val : FilterSeqs]

\* A bare string not told from a sequence.
ListOut_Always(arg) == TRUE

ListOut(arg) == arg.kind # "str"

FilterList(arg) == IF arg.kind = "str" THEN <<arg.val>> ELSE arg.val

\* The bare string decided before as_dict.
Output_ScalarFirst(fs, lo, ad, exts) ==
    IF ~lo THEN [shape |-> "scalar", value |-> exts[1]]
    ELSE IF ad THEN [shape |-> "dict", value |-> DictZip(fs, exts)]
    ELSE [shape |-> "list", value |-> exts]

Output(fs, lo, ad, exts) ==
    IF ad THEN [shape |-> "dict", value |-> DictZip(fs, exts)]
    ELSE IF lo THEN [shape |-> "list", value |-> exts]
    ELSE [shape |-> "scalar", value |-> exts[1]]

VARIABLES
    pc,           \* where request_extinctions stands
    conn,         \* the HTTPConnection of the running call
    released,     \* the connections of the calls that have ended
    response,     \* conn.getresponse()
    html_output,  \* whether response.read() has been taken
    parser,       \* the NEDParser of the running call
    fed,          \* the number of lines fed to it
    rows,         \* the rows the call has closed with a parsed number, in order
    filters_arg,  \* the filters argument as passed
    filters,      \* the list the loop walks
    list_out,
    as_dict,
    extinctions,  \* the list the loop builds
    warnings,     \* the warn() calls of the call
    outcome,      \* "returned", or the exception the call raised
    error,        \* the HTTPResponseError raised
    result        \* the value returned

vars == <<pc, conn, released, response, html_output, parser, fed, rows,
          filters_arg, filters, list_out, as_dict, extinctions, warnings,
          outcome, error, result>>

connVars == <<conn, released, response, html_output>>
parserVars == <<parser, fed, rows>>
argVars == <<filters_arg, filters, list_out, as_dict>>
outVars == <<extinctions, warnings, outcome, error, result>>

Init ==
    /\ pc = "idle"
    /\ conn = NoConn
    /\ released = {}
    /\ response = NoResponse
    /\ html_output = FALSE
    /\ parser = NEDParser
    /\ fed = 0
    /\ rows = <<>>
    /\ filters_arg = [kind |-> "seq", val |-> <<>>]
    /\ filters = <<>>
    /\ list_out = TRUE
    /\ as_dict = FALSE
    /\ extinctions = <<>>
    /\ warnings = <<>>
    /\ outcome = "none"
    /\ error = NoError
    /\ result = NoResult

(* ---- HTTPConnection ---- *)
ConnNew == [state |-> "new", requests |-> 0]

ConnRequest(c) == [state |-> "open", requests |-> c.requests + 1]

\* A close that is left out.
ConnClose_Missing(c) == c

ConnClose(c) == [c EXCEPT !.state = "closed"]

\* request_extinctions(ra, dec, filters, ..., as_dict) is called: lines 107-110
\* and conn = httplib.HTTPConnection(_server).
Connect ==
    /\ pc = "idle"
    /\ pc' = "request"
    /\ conn' = ConnNew
    /\ \E arg \in FilterArgs, ad \in BOOLEAN :
          /\ filters_arg' = arg
          /\ filters' = FilterList(arg)
          /\ list_out' = ListOut(arg)
          /\ as_dict' = ad
    /\ UNCHANGED <<released, response, html_output>>
    /\ UNCHANGED parserVars
    /\ UNCHANGED outVars

\* conn.request('GET', ...)
Request ==
    /\ pc = "request"
    /\ pc' = "getresponse"
    /\ conn' = ConnRequest(conn)
    /\ UNCHANGED <<released, response, html_output>>
    /\ UNCHANGED parserVars
    /\ UNCHANGED argVars
    /\ UNCHANGED outVars

\* response = conn.getresponse()
GetResponse ==
    /\ pc = "getresponse"
    /\ pc' = "read"
    /\ \E r \in Responses : response' = r
    /\ UNCHANGED <<conn, released, html_output>>
    /\ UNCHANGED parserVars
    /\ UNCHANGED argVars
    /\ UNCHANGED outVars

\* html_output = str(response.read()).split('\\n')
Read ==
    /\ pc = "read"
    /\ pc' = "close"
    /\ html_output' = TRUE
    /\ UNCHANGED <<conn, released, response>>
    /\ UNCHANGED parserVars
    /\ UNCHANGED argVars
    /\ UNCHANGED outVars

\* conn.close()
Close ==
    /\ pc = "close"
    /\ pc' = "status"
    /\ conn' = ConnClose(conn)
    /\ UNCHANGED <<released, response, html_output>>
    /\ UNCHANGED parserVars
    /\ UNCHANGED argVars
    /\ UNCHANGED outVars

\* Only the error statuses refused.
BadStatus_ErrorsOnly(status) == status >= 400

BadStatus(status) == status # OK

\* if response.status != httplib.OK: raise HTTPResponseError(response)
\* parser = NEDParser()
CheckStatus ==
    /\ pc = "status"
    /\ IF BadStatus(response.status)
       THEN /\ pc' = "done"
            /\ outcome' = "HTTPResponseError"
            /\ error' = [type |-> "HTTPResponseError", status |-> response.status,
                         reason |-> response.reason]
            /\ UNCHANGED parserVars
       ELSE /\ pc' = "feed"
            /\ parser' = NEDParser
            /\ fed' = 0
            /\ rows' = <<>>
            /\ UNCHANGED <<outcome, error>>
    /\ UNCHANGED connVars
    /\ UNCHANGED argVars
    /\ UNCHANGED <<extinctions, warnings, result>>

\* The first line starts with the b' of str(bytes), text in front of its first tag.
LineEvents(line) == IF fed = 0 THEN <<Data(BytesPrefix)>> \o line ELSE line

\* for line in html_output: parser.feed(line)   (one line)
\* An exception of a handler ends the call and its frame.
FeedLine(line) ==
    /\ pc = "feed"
    /\ fed < MaxLines
    /\ IF feed(parser, LineEvents(line)).raised # "none"
       THEN /\ pc' = "done"
            /\ outcome' = feed(parser, LineEvents(line)).raised
            /\ parser' = NEDParser
            /\ fed' = 0
            /\ rows' = rows \o Closed(parser, LineEvents(line))
            /\ UNCHANGED <<extinctions, warnings, error, result>>
       ELSE /\ parser' = feed(parser, LineEvents(line))
            /\ rows' = rows \o Closed(parser, LineEvents(line))
            /\ fed' = fed + 1
            /\ UNCHANGED pc
            /\ UNCHANGED outVars
    /\ UNCHANGED argVars
    /\ UNCHANGED connVars

\* Lines 133-150: the loop over the filters, the result and the return.
Match ==
    /\ pc = "feed"
    /\ pc' = "done"
    /\ extinctions' = Loop(filters, parser.extinctions).extinctions
    /\ warnings' = Loop(filters, parser.extinctions).warnings
    /\ result' = Output(filters, list_out, as_dict, Loop(filters, parser.extinctions).extinctions)
    /\ outcome' = "returned"
    /\ parser' = NEDParser
    /\ fed' = 0
    /\ UNCHANGED connVars
    /\ UNCHANGED argVars
    /\ UNCHANGED <<rows, error>>

\* The call is over and the caller goes on (lines 163-165): the frame is
\* gone, the connection object is left as the call left it.
Return ==
    /\ pc = "done"
    /\ pc' = "idle"
    /\ released' = released \cup {conn}
    /\ conn' = NoConn
    /\ response' = NoResponse
    /\ html_output' = FALSE
    /\ rows' = <<>>
    /\ filters_arg' = [kind |-> "seq", val |-> <<>>]
    /\ filters' = <<>>
    /\ list_out' = TRUE
    /\ as_dict' = FALSE
    /\ extinctions' = <<>>
    /\ warnings' = <<>>
    /\ outcome' = "none"
    /\ error' = NoError
    /\ result' = NoResult
    /\ UNCHANGED <<parser, fed>>

Next ==
    \/ Connect
    \/ Request
    \/ GetResponse
    \/ Read
    \/ Close
    \/ CheckStatus
    \/ \E line \in Lines : FeedLine(line)
    \/ Match
    \/ Return

Spec == Init /\ [][Next]_vars

(***************************************************************************)
(* The rows of the response, as the properties below speak of them: the    *)
(* rows closed with a parsed number, whose name contains the filter.       *)
(***************************************************************************)
RECURSIVE RowsMatching(_, _)
RowsMatching(filt, rs) ==
    IF rs = <<>> THEN <<>>
    ELSE IF Contains(filt, rs[1][1]) THEN <<rs[1]>> \o RowsMatching(filt, Tail(rs))
    ELSE RowsMatching(filt, Tail(rs))

RowNames(filt) == {r[1] : r \in Range(RowsMatching(filt, rows))}

AllRowNames == {r[1] : r \in Range(rows)}

\* The value of the most recent row of that name.
LastRowValue(name) ==
    rows[CHOOSE i \in 1..Len(rows) :
            /\ rows[i][1] = name
            /\ \A j \in (i + 1)..Len(rows) : rows[j][1] # name][2]

RECURSIVE SumOfLast(_)
SumOfLast(names) ==
    IF names = {} THEN <<0, 1>>
    ELSE LET n == CHOOSE x \in names : TRUE
         IN RatAdd(LastRowValue(n), SumOfLast(names \ {n}))

RECURSIVE SumOfRows(_)
SumOfRows(rs) == IF rs = <<>> THEN <<0, 1>> ELSE RatAdd(rs[1][2], SumOfRows(Tail(rs)))

\* One value for each distinct matching name, averaged; None without a match.
Expected(filt) ==
    IF RowNames(filt) = {} THEN None
    ELSE RatDiv(SumOfLast(RowNames(filt)), Cardinality(RowNames(filt)))

Returned == pc = "done" /\ outcome = "returned"

\* The value the result carries for the i-th requested filter.
ReturnedAt(i) ==
    IF result.shape = "dict" THEN DictGet(result.value, filters[i])
    ELSE IF result.shape = "list" THEN result.value[i]
    ELSE result.value

Positions(filt) == {i \in 1..Len(filters) : filters[i] = filt}

WarningsOf(kind, filt) == {i \in 1..Len(warnings) : warnings[i].kind = kind /\ warnings[i].filt = filt}

WarningsSaying(kind, filt, n) == {i \in WarningsOf(kind, filt) : warnings[i].n = n}

\* C1, as the specification states it: when two or more rows of a 200
\* response match a requested filter, rows of the same name included, the value
\* returned for the filter is the mean of the values of all those rows and a
\* multiple-match warning states their number.
C1_MeanOfAllMatchingRows ==
    Returned =>
        \A i \in 1..Len(filters) :
            Len(RowsMatching(filters[i], rows)) >= 2 =>
                /\ ReturnedAt(i) = RatDiv(SumOfRows(RowsMatching(filters[i], rows)),
                                          Len(RowsMatching(filters[i], rows)))
                /\ Cardinality(WarningsSaying("multiple", filters[i],
                                              Len(RowsMatching(filters[i], rows))))
                   = Cardinality(Positions(filters[i]))

\* C1, amended: when the rows of a 200 response that match a requested filter
\* carry two or more distinct names, the value returned for the filter is the
\* mean of one value for each distinct name, the value of the most recent row
\* of that name, and a multiple-match warning states the number of distinct
\* names; matching rows that all carry one name are not averaged: the value is
\* that of the most recent of them and no multiple-match warning is produced.
C1_MeanOverDistinctNames ==
    Returned =>
        \A i \in 1..Len(filters) :
            /\ Cardinality(RowNames(filters[i])) >= 2 =>
                  /\ ReturnedAt(i) = RatDiv(SumOfLast(RowNames(filters[i])),
                                            Cardinality(RowNames(filters[i])))
                  /\ WarningsOf("multiple", filters[i])
                     = WarningsSaying("multiple", filters[i], Cardinality(RowNames(filters[i])))
                  /\ Cardinality(WarningsOf("multiple", filters[i]))
                     = Cardinality(Positions(filters[i]))
            /\ Cardinality(RowNames(filters[i])) = 1 =>
                  /\ ReturnedAt(i) = LastRowValue(CHOOSE n \in RowNames(filters[i]) : TRUE)
                  /\ WarningsOf("multiple", filters[i]) = {}

\* Rows C V 0.1 and L V 0.3, filter V: 0.2 is returned with the warning for 2 values.
C1_Witness ==
    /\ Returned
    /\ rows = << <<S_CV, <<1, 10>> >>, << <<"L", " ", "V">>, <<3, 10>> >> >>
    /\ filters = <<S_V>>
    /\ result = [shape |-> "list", value |-> << <<1, 5>> >>]
    /\ warnings = << [kind |-> "multiple", filt |-> S_V, n |-> 2] >>

\* C2: when exactly one row of a 200 response matches a requested filter, the
\* value returned for the filter is that row's parsed number and no warning is
\* produced for the filter, whatever the other rows are.
C2_SingleMatchExact ==
    Returned =>
        \A i \in 1..Len(filters) :
            Len(RowsMatching(filters[i], rows)) = 1 =>
                /\ ReturnedAt(i) = RowsMatching(filters[i], rows)[1][2]
                /\ WarningsOf("multiple", filters[i]) = {}
                /\ WarningsOf("none", filters[i]) = {}

\* Rows C V 0.1 and L V 0.3, filter "C V": 0.1 is returned, no warning.
C2_Witness ==
    /\ Returned
    /\ Len(rows) = 2
    /\ filters = <<S_CV>>
    /\ Len(RowsMatching(S_CV, rows)) = 1
    /\ result = [shape |-> "list", value |-> << <<1, 10>> >>]
    /\ warnings = <<>>

\* C3: a call on a 200 response with a requested filter that no row matches
\* still completes; the value for that filter is None, one no-match warning
\* naming it is produced for each place it is requested at, and the values of
\* the other filters are what they are without it.
C3_NoMatchCompletes ==
    (/\ pc = "done"
     /\ response.status = OK
     /\ \E i \in 1..Len(filters) : RowNames(filters[i]) = {}) =>
        /\ outcome = "returned"
        /\ \A i \in 1..Len(filters) :
              /\ RowNames(filters[i]) = {} =>
                    /\ ReturnedAt(i) = None
                    /\ Cardinality(WarningsOf("none", filters[i]))
                       = Cardinality(Positions(filters[i]))
              /\ RowNames(filters[i]) # {} =>
                    /\ ReturnedAt(i) = Expected(filters[i])
                    /\ WarningsOf("none", filters[i]) = {}

\* C4: a response whose status is not 200 ends the call with an
\* HTTPResponseError carrying its status and reason; nothing is returned, no
\* line is parsed, no filter is matched and no warning produced.  A 200
\* response never raises it.
C4_BadStatusRaises ==
    /\ (pc \in {"feed", "done"} /\ response.status # OK) =>
          /\ pc = "done"
          /\ outcome = "HTTPResponseError"
          /\ error = [type |-> "HTTPResponseError", status |-> response.status,
                      reason |-> response.reason]
          /\ result = NoResult
          /\ extinctions = <<>>
          /\ warnings = <<>>
          /\ rows = <<>>
    /\ response.status = OK => (outcome # "HTTPResponseError" /\ error = NoError)
    /\ outcome = "HTTPResponseError" => response.status # OK

C4_Witness ==
    /\ pc = "done"
    /\ response.status = 500
    /\ error.status = 500
    /\ error.reason = "Internal Server Error"

\* C5: with as_dict false, a call passed a sequence of n filters returns a
\* sequence of n entries, the i-th the value (or None) for the i-th filter; a
\* call passed one bare string returns the one value, not a sequence.
C5_ListShape ==
    (Returned /\ ~as_dict) =>
        IF filters_arg.kind = "seq"
        THEN /\ result.shape = "list"
             /\ Len(result.value) = Len(filters_arg.val)
             /\ \A i \in 1..Len(filters_arg.val) :
                   result.value[i] = Expected(filters_arg.val[i])
        ELSE /\ result.shape = "scalar"
             /\ result.value = Expected(filters_arg.val)

\* The same filter twice in a sequence: two entries, both its value.
C5_Witness ==
    /\ Returned
    /\ ~as_dict
    /\ filters_arg = [kind |-> "seq", val |-> <<S_CV, S_CV>>]
    /\ result = [shape |-> "list", value |-> << <<1, 10>>, <<1, 10>> >>]

\* The keys of dict(zip(...)): the filters in order, each once.
RECURSIVE Dedup(_)
Dedup(fs) ==
    IF fs = <<>> THEN <<>>
    ELSE IF \E j \in 1..(Len(fs) - 1) : fs[j] = fs[Len(fs)]
    THEN Dedup(SubSeq(fs, 1, Len(fs) - 1))
    ELSE Append(Dedup(SubSeq(fs, 1, Len(fs) - 1)), fs[Len(fs)])

\* C6: with as_dict true the call returns a mapping whose keys are the
\* requested filters in their order, equal ones once, and whose value under
\* each key is the entry the list-mode result has for that filter; a bare
\* string gives a mapping of one key.
C6_DictMatchesList ==
    (Returned /\ as_dict) =>
        /\ result.shape = "dict"
        /\ DictKeys(result.value) =
              Dedup(IF filters_arg.kind = "str" THEN <<filters_arg.val>> ELSE filters_arg.val)
        /\ \A i \in 1..Len(filters) :
              /\ DictGet(result.value, filters[i]) = extinctions[i]
              /\ DictGet(result.value, filters[i]) = Expected(filters[i])

\* Two different filters, the first with a value and the second without.
C6_Witness ==
    /\ Returned
    /\ as_dict
    /\ filters_arg = [kind |-> "seq", val |-> <<S_CV, S_g>>]
    /\ result = [shape |-> "dict", value |-> << <<S_CV, <<3, 10>> >>, <<S_g, None>> >>]

\* C7: a row closed while the parser is outside the moreBANDS container adds
\* no entry to the extinctions mapping.
C7_OutsideContainerAddsNothing ==
    [][(pc = "feed" /\ pc' = "feed" /\ ~parser.enabled /\ ~parser'.enabled)
           => parser'.extinctions = parser.extinctions]_vars

\* C8: on a 200 response no line of the body makes the call fail; a line that
\* closes no row with a parsed number leaves the extinctions mapping as it was,
\* and the call goes on to return a result.
C8_BadRowsDropped ==
    [][pc = "feed" =>
          /\ outcome' \in {"none", "returned"}
          /\ (pc' = "feed" /\ rows' = rows) => parser'.extinctions = parser.extinctions]_vars

\* C9: while the rows are parsed the extinctions mapping holds one entry for
\* each name closed with a parsed number, its value that of the most recent
\* such row, and nothing else; so the rows sharing a name give one value to the
\* matches of any filter.
C9_LastValuePerName ==
    pc = "feed" =>
        /\ \A i, j \in 1..Len(parser.extinctions) :
              parser.extinctions[i][1] = parser.extinctions[j][1] => i = j
        /\ Range(DictKeys(parser.extinctions)) = AllRowNames
        /\ \A n \in AllRowNames : DictGet(parser.extinctions, n) = LastRowValue(n)
        /\ \A f \in FilterNames :
              Len(matches(f, parser.extinctions)) = Cardinality(RowNames(f))

\* C V 0.1 then C V 0.3: the mapping holds C V -> 0.3 alone.
C9_Witness ==
    /\ pc = "feed"
    /\ rows = << <<S_CV, <<1, 10>> >>, <<S_CV, <<3, 10>> >> >>
    /\ parser.extinctions = << <<S_CV, <<3, 10>> >> >>

\* C10: a call works on a connection of its own, new when the call starts;
\* it issues one GET on it and never a second; when the call has ended, by a
\* return or by an exception, the body has been read and the connection is
\* closed, and so is every connection of the calls before; the parser the
\* lines are fed to starts empty.
C10_OneRequestThenClosed ==
    /\ conn.requests <= 1
    /\ pc = "idle" => conn = NoConn
    /\ pc = "request" => conn = ConnNew
    /\ pc \in {"getresponse", "read", "close"} => conn = [state |-> "open", requests |-> 1]
    /\ pc \in {"status", "feed", "done"} =>
          /\ conn = [state |-> "closed", requests |-> 1]
          /\ html_output
    /\ \A c \in released : c = [state |-> "closed", requests |-> 1]
    /\ (pc = "feed" /\ fed = 0) => (parser = NEDParser /\ rows = <<>>)

\* A second call that ended with the HTTPResponseError.
C10_Witness ==
    /\ pc = "done"
    /\ released # {}
    /\ outcome = "HTTPResponseError"
    /\ conn.state = "closed"

====
